---- MODULE Spec2Model ----
(***************************************************************************)
(* The analysis job queue of ChessCoach (AnalysisQueue, queue.service).    *)
(*                                                                         *)
(* JavaScript runs one handler at a time: a synchronous method runs to     *)
(* its end, an async function runs up to its next await.  Every action     *)
(* below is one such uninterrupted stretch of code.  Job objects are       *)
(* shared by reference between the job table and the worker loops, so the  *)
(* model keeps a heap of job objects and stores heap indices in the table. *)
(***************************************************************************)
EXTENDS Integers, Sequences, FiniteSets, TLC

\* ----------------------------------------------------------------- bounds
NumGames == 3      \* game ids 1..NumGames
MaxJobs == 3       \* job objects ever created by addJob
MaxClock == 1      \* the wall clock (new Date()) reads 0..MaxClock
ShortPlies == 3    \* plies of the short game
MaxRuns == 2       \* direct calls of analyzeGame

GameIds == 1..NumGames

\* DepthPreset = keyof typeof AnalysisDepth
Depths == {"fast", "balanced", "thorough"}
\* the presets callers pass to addJob where the depth is what is looked at
QueueDepths == {"fast", "thorough"}

\* JobStatus
Statuses == {"queued", "processing", "completed", "failed"}

\* An optional field: <<>> is undefined, <<v>> is the value v.
Undefined == <<>>
Some(v) == <<v>>
IsSet(f) == f # <<>>

\* What analyzeGame can throw: Error objects with a message, or a value
\* that is no Error (the catch clause tells them apart).
Thrown ==
  { [isError |-> TRUE, message |-> "Analysis timeout"],
    [isError |-> FALSE, message |-> ""] }

VARIABLES
  queue,         \* Map<string, AnalysisJob>: sequence of [key, job] in insertion order
  heap,          \* the AnalysisJob objects, in order of creation
  isProcessing,  \* AnalysisQueue.isProcessing
  workers,       \* the job each live processQueue loop awaits analyzeGame for
  now,           \* the wall clock
  last,          \* the step taken last: its arguments and what it returned
  db,            \* the document store: Game and Analysis collections
  run,           \* the analyzeGame call in progress: its locals and where it stands
  book           \* opening-book: bookCache and the outbound requests

vars == <<queue, heap, isProcessing, workers, now, last, db, run, book>>
\* the state of the queue, and the state the analysis works on
qvars == <<queue, heap, isProcessing, workers, now, last>>
avars == <<db, run, book>>

\* ------------------------------------------------------------ Map helpers
Keys(q) == {q[i].key : i \in 1..Len(q)}
HasKey(q, k) == k \in Keys(q)
IndexOf(q, k) == CHOOSE i \in 1..Len(q) : q[i].key = k
MapGet(q, k) == q[IndexOf(q, k)].job
\* Map.set keeps the position of a key that is present, appends a new one
MapSet(q, k, j) ==
  IF HasKey(q, k)
    THEN [q EXCEPT ![IndexOf(q, k)] = [key |-> k, job |-> j]]
    ELSE Append(q, [key |-> k, job |-> j])
MapDelete(q, k) == SelectSeq(q, LAMBDA e : e.key # k)
\* Array.from(this.queue.values())
Values(q) == [i \in 1..Len(q) |-> q[i].job]
InTable(q) == {q[i].job : i \in 1..Len(q)}

IsTerminal(s) == s \in {"completed", "failed"}

\* A job object that neither the table nor a worker loop refers to is
\* unreachable: nothing can read or write it again.  The heap keeps only a
\* marker for it, which remembers how the last reference went: "removed"
\* by removeJob, clearFinishedJobs or clearAllJobs, "dropped" when
\* queue.set put another object under its key.
Gone(why) ==
  [gameId |-> 0, depth |-> "fast", status |-> why, createdAt |-> 0,
   startedAt |-> Undefined, completedAt |-> Undefined,
   error |-> Undefined, resultId |-> Undefined]
IsGone(job) == job.status \in {"removed", "dropped"}
Collect(q, h, ws, why) ==
  [j \in 1..Len(h) |->
     IF j \in InTable(q) \cup ws \/ IsGone(h[j])
       THEN h[j] ELSE Gone(why)]

\* ------------------------------------------------------------ processQueue
\* .sort((a, b) => a.createdAt.getTime() - b.createdAt.getTime()): Array.sort
\* is stable, so jobs with equal createdAt keep the order they had.  The
\* element at index i goes to the place after all elements with a smaller
\* createdAt and all earlier elements with the same createdAt.
SortByCreatedAt(s, h) ==
  LET Before(k, i) == \/ h[s[k]].createdAt < h[s[i]].createdAt
                      \/ h[s[k]].createdAt = h[s[i]].createdAt /\ k < i
      Place(i) == Cardinality({k \in 1..Len(s) : Before(k, i)}) + 1
  IN [p \in 1..Len(s) |-> s[CHOOSE i \in 1..Len(s) : Place(i) = p]]

\* failed jobs taken again, as an automatic retry would
MutQueuedJobs(q, h) ==
  SortByCreatedAt(SelectSeq(Values(q), LAMBDA j : h[j].status \in {"queued", "failed"}), h)

\* Array.from(this.queue.values()).filter(j => j.status === 'queued').sort(...)
QueuedJobs(q, h) ==
  SortByCreatedAt(SelectSeq(Values(q), LAMBDA j : h[j].status = "queued"), h)

\* the youngest queued job instead of the oldest
MutNextJob(q, h) == QueuedJobs(q, h)[Len(QueuedJobs(q, h))]

\* const job = queuedJobs[0]
NextJob(q, h) == QueuedJobs(q, h)[1]

\* One pass through the top of the while loop, up to the await of
\* analyzeGame (or to the break).  q, h, isP, ws are the table, the heap,
\* isProcessing and the awaited jobs as the loop finds them.
LoopTop(q, h, isP, ws) ==
  IF QueuedJobs(q, h) = <<>>
    THEN [queue |-> q, heap |-> h, isProcessing |-> FALSE, workers |-> ws]
    ELSE LET j == NextJob(q, h)
             h2 == [h EXCEPT ![j].status = "processing",
                             ![j].startedAt = Some(now)]
         IN [queue |-> MapSet(q, h[j].gameId, j), heap |-> h2,
             isProcessing |-> isP, workers |-> ws \cup {j}]

\* a worker started whatever isProcessing says
MutWorkerMayStart(isP) == TRUE

\* if (this.isProcessing) return;  and  if (!this.isProcessing) this.processQueue()
WorkerMayStart(isP) == ~isP

\* a worker whose first step is put off to a later turn of the event loop
MutProcessQueue(q, h, isP, ws) ==
  [queue |-> q, heap |-> h, isProcessing |-> isP, workers |-> ws]

\* processQueue() called from addJob: the synchronous part of the call
ProcessQueue(q, h, isP, ws) ==
  IF WorkerMayStart(isP)
    THEN LoopTop(q, h, TRUE, ws)
    ELSE [queue |-> q, heap |-> h, isProcessing |-> isP, workers |-> ws]

\* ------------------------------------------------------------------ addJob
\* last: the step taken last, with its arguments (gameId, depth) and what
\* it returned (job: an AnalysisJob reference, ok: a boolean, n: a number).
NoCall ==
  [op |-> "none", gameId |-> 0, depth |-> "fast", job |-> 0, ok |-> FALSE, n |-> 0]
Call(op, g, d, j, ok, n) ==
  [op |-> op, gameId |-> g, depth |-> d, job |-> j, ok |-> ok, n |-> n]

\* addJob without the check for an existing job
MutReturnsExisting(q, h, g) == FALSE

\* if (existingJob) return existingJob;
ReturnsExisting(q, h, g) == HasKey(q, g)

NewJob(g, d) ==
  [gameId |-> g, depth |-> d, status |-> "queued", createdAt |-> now,
   startedAt |-> Undefined, completedAt |-> Undefined,
   error |-> Undefined, resultId |-> Undefined]

EnqueueJob(g, d) ==
  IF ReturnsExisting(queue, heap, g)
    THEN /\ last' = Call("addJob", g, d, MapGet(queue, g), TRUE, 0)
         /\ UNCHANGED <<queue, heap, isProcessing, workers, now>>
    ELSE /\ Len(heap) < MaxJobs
         /\ \E r \in {ProcessQueue(MapSet(queue, g, Len(heap) + 1),
                                    Append(heap, NewJob(g, d)),
                                    isProcessing, workers)} :
              /\ queue' = r.queue
              /\ heap' = Collect(r.queue, r.heap, r.workers, "dropped")
              /\ isProcessing' = r.isProcessing
              /\ workers' = r.workers
              /\ last' = Call("addJob", g, d, Len(heap) + 1, TRUE, 0)
         /\ UNCHANGED now

\* addJob with analyzeGame seen from outside, as a call that settles later
AddJob(g, d) == EnqueueJob(g, d) /\ UNCHANGED avars

\* ------------------------------------------------- the worker after await
\* analyzeGame returned for the job j the loop holds: mark it completed,
\* write it to the table, and go round the loop.  result._id, the id of the
\* Analysis document of the game, is written as the game's id.
Completed(h, j) ==
  [h EXCEPT ![j].status = "completed",
            ![j].completedAt = Some(now),
            ![j].resultId = Some(h[j].gameId)]

\* a catch clause that has one text for every error
MutErrorText(e) == "Unknown error"

\* error instanceof Error ? error.message : 'Unknown error'
ErrorText(e) == IF e.isError THEN e.message ELSE "Unknown error"

\* the catch clause without job.completedAt = new Date()
MutFailed(h, j, e) ==
  [h EXCEPT ![j].status = "failed",
            ![j].error = Some(ErrorText(e))]

Failed(h, j, e) ==
  [h EXCEPT ![j].status = "failed",
            ![j].completedAt = Some(now),
            ![j].error = Some(ErrorText(e))]

\* a loop that ends after the job instead of going round
MutAfterJob(q, h, j) ==
  [queue |-> MapSet(q, h[j].gameId, j), heap |-> h,
   isProcessing |-> FALSE, workers |-> workers \ {j}]

\* the statements after the try/catch: this.queue.set(gameIdStr, job), then
\* the next pass of while (true)
AfterJob(q, h, j) ==
  LoopTop(MapSet(q, h[j].gameId, j), h, isProcessing, workers \ {j})

WorkerCompletes(j) ==
  /\ j \in workers
  /\ \E r \in {AfterJob(queue, Completed(heap, j), j)} :
        /\ queue' = r.queue
        /\ heap' = Collect(r.queue, r.heap, r.workers, "dropped")
        /\ isProcessing' = r.isProcessing
        /\ workers' = r.workers
  /\ last' = Call("analysisReturns", heap[j].gameId, heap[j].depth, j, TRUE, 0)
  /\ UNCHANGED now

\* the try block after await analyzeGame, for a call that returned
AnalysisReturns(j) == WorkerCompletes(j) /\ UNCHANGED avars

WorkerCatches(j, e) ==
  /\ j \in workers
  /\ \E r \in {AfterJob(queue, Failed(heap, j, e), j)} :
        /\ queue' = r.queue
        /\ heap' = Collect(r.queue, r.heap, r.workers, "dropped")
        /\ isProcessing' = r.isProcessing
        /\ workers' = r.workers
  /\ last' = Call("analysisThrows", heap[j].gameId, heap[j].depth, j, FALSE, 0)
  /\ UNCHANGED now

\* the catch clause, for a call that threw e
AnalysisThrows(j, e) == WorkerCatches(j, e) /\ UNCHANGED avars

\* --------------------------------------------------------------- removals
\* removeJob without the check for a processing job
MutRemoveRefused(q, h, g) == FALSE

\* if (job?.status === 'processing') return false;
RemoveRefused(q, h, g) == HasKey(q, g) /\ h[MapGet(q, g)].status = "processing"

RemoveJob(g) ==
  /\ IF RemoveRefused(queue, heap, g)
       THEN /\ queue' = queue
            /\ last' = Call("removeJob", g, "fast", 0, FALSE, 0)
       ELSE /\ queue' = MapDelete(queue, g)
            /\ last' = Call("removeJob", g, "fast", 0, HasKey(queue, g), 0)
  /\ heap' = Collect(queue', heap, workers, "removed")
  /\ UNCHANGED <<isProcessing, workers, now>>
  /\ UNCHANGED avars

\* .filter(([_, job]) => job.status === 'completed' || job.status === 'failed')
ToRemove(q, h) == SelectSeq(q, LAMBDA e : IsTerminal(h[e.job].status))

ClearFinishedJobs ==
  /\ queue' = SelectSeq(queue, LAMBDA e : e.key \notin Keys(ToRemove(queue, heap)))
  /\ last' = Call("clearFinishedJobs", 0, "fast", 0, TRUE, Len(ToRemove(queue, heap)))
  /\ heap' = Collect(queue', heap, workers, "removed")
  /\ UNCHANGED <<isProcessing, workers, now>>
  /\ UNCHANGED avars

ClearAllJobs ==
  /\ queue' = <<>>
  /\ isProcessing' = FALSE
  /\ last' = Call("clearAllJobs", 0, "fast", 0, TRUE, 0)
  /\ heap' = Collect(queue', heap, workers, "removed")
  /\ UNCHANGED <<workers, now>>
  /\ UNCHANGED avars

\* time passes between two handlers
Tick ==
  /\ now < MaxClock
  /\ now' = now + 1
  /\ UNCHANGED <<queue, heap, isProcessing, workers, last>>
  /\ UNCHANGED avars

\* -------------------------------------------------------- getEstimatedTime
\* const timePerJob = { fast: 60, balanced: 300, thorough: 600 }
TimePerJob(d) ==
  CASE d = "fast" -> 60
    [] d = "balanced" -> 300
    [] d = "thorough" -> 600

\* queuedJobs.findIndex(j => j.gameId.toString() === gameId.toString()):
\* the 0-based index of the first match, -1 when there is none
FindIndex(qj, h, g) ==
  IF \E i \in 1..Len(qj) : h[qj[i]].gameId = g
    THEN (CHOOSE i \in 1..Len(qj) :
            /\ h[qj[i]].gameId = g
            /\ \A k \in 1..(i - 1) : h[qj[k]].gameId # g) - 1
    ELSE -1

\* timePerJob[job.depth] || 120
EstimatedTimeOf(job) ==
  IF job.depth \in Depths THEN TimePerJob(job.depth) ELSE 120

\* this.isProcessing ? timePerJob[queuedJobs[0]?.depth || 'fast'] : 0
ProcessingTime(qj, h, isP) ==
  IF isP
    THEN TimePerJob(IF qj # <<>> THEN h[qj[1]].depth ELSE "fast")
    ELSE 0

\* What getEstimatedTime(g) returns: ok is FALSE for null, n is the number.
EstimatedTime(q, h, isP, g) ==
  IF ~HasKey(q, g) THEN [ok |-> FALSE, n |-> 0]
  ELSE LET job == h[MapGet(q, g)]
           queuedJobs == QueuedJobs(q, h)
           position == FindIndex(queuedJobs, h, g)
       IN IF IsTerminal(job.status) THEN [ok |-> TRUE, n |-> 0]
          ELSE IF job.status = "processing" THEN [ok |-> TRUE, n |-> 60]
          ELSE IF position = -1 THEN [ok |-> FALSE, n |-> 0]
          ELSE [ok |-> TRUE,
                n |-> ProcessingTime(queuedJobs, h, isP)
                        + position * EstimatedTimeOf(job)]

GetEstimatedTime(g) ==
  /\ \E r \in {EstimatedTime(queue, heap, isProcessing, g)} :
       last' = Call("getEstimatedTime", g, "fast", 0, r.ok, r.n)
  /\ UNCHANGED <<queue, heap, isProcessing, workers, now>>
  /\ UNCHANGED avars

\* ---------------------------------------------------------- the game store
\* Game documents carry a PGN; the model tells four kinds of PGN apart: one
\* that chess.js cannot load, one without moves, and two games on the same
\* line of play, a short one and one that runs past the opening.
PgnKinds == {"malformed", "empty", "short", "long"}

\* determineGamePhase: moveNumber <= 12 is the opening
OpeningMoves == 12

\* the first ply with a move number past the opening
LongPlies == 2 * OpeningMoves + 1

\* a loadPgn that accepts whatever it is given
MutLoadPgnThrows(pgn) == FALSE

\* chess.loadPgn(game.pgn) throws on a PGN it cannot parse
LoadPgnThrows(pgn) == pgn = "malformed"

\* chess.history({ verbose: true }): ply i is played by White when i is odd;
\* from + to + promotion of the i-th move of the line is written i
History(pgn) ==
  [i \in 1..(CASE pgn = "short" -> ShortPlies
               [] pgn = "long" -> LongPlies
               [] OTHER -> 0) |->
     [color |-> IF i % 2 = 1 THEN "w" ELSE "b", uci |-> i]]

\* Game documents and Analysis documents, by game id
GameDoc(exists, pgn) == [exists |-> exists, pgn |-> pgn, analyzed |-> FALSE]
Store(first) ==
  [games |-> [g \in GameIds |-> IF g = 1 THEN first ELSE GameDoc(TRUE, "short")],
   analyses |-> [g \in GameIds |-> Undefined]]
NoStore == Store(GameDoc(TRUE, "short"))

\* ------------------------------------------------------------ the evaluator
\* stockfish.analyzePosition(fen, depth) for the position after p plies of
\* the line: evaluation in centipawns for White (+-100000 with a mate),
\* mateIn, and bestMove, which is the move played next in every other
\* position (0 is a move that is not played).
AnalyzePosition(p) ==
  [evaluation |-> CASE p % 5 = 1 -> 100
                    [] p % 5 = 3 -> 100000
                    [] p % 5 = 4 -> -300
                    [] OTHER -> 0,
   mateIn |-> IF p % 5 = 3 THEN Some(3) ELSE Undefined,
   bestMove |-> IF p % 2 = 0 THEN p + 1 ELSE 0]

\* calculateMaterial(fen, color) of the position after p plies: White gives
\* up a minor piece with the third ply
CalculateMaterial(p, color) ==
  IF color = "w" /\ p >= 3 THEN 36 ELSE 39

\* ------------------------------------------------------ evaluation-utils
\* Probabilities and expected points are written in thousandths.  The win
\* percentage itself is kept as the double the code computes, as a fraction
\* of 100 and written <<a, b>> for a * 10^-9 + b * 10^-18, later digits cut:
\* two values are equal here exactly when the doubles are.
Unit == 1000000000
Exact(a) == <<a, 0>>
Less(x, y) == x[1] < y[1] \/ (x[1] = y[1] /\ x[2] < y[2])
Permille(x) == (x[1] + 500000) \div 1000000

\* the scores centipawnsToWinPercent is tabulated on
LogisticCps ==
  {-10000, -9990, -9001, -9000, -5000, -1000, -300, -151, -150,
   -100, -99, -50, -1, 0, 1, 50, 99, 100,
   150, 151, 300, 1000, 5000, 9000, 9001, 9990, 10000}

\* (50 + 50 * (2 / (1 + Math.exp(-0.00368208 * cp)) - 1)) / 100 in double
\* arithmetic
Logistic(cp) ==
  CASE cp = -10000 -> <<0, 142>>
    [] cp = -9990 -> <<0, 142>>
    [] cp = -9001 -> <<0, 4050>>
    [] cp = -9000 -> <<0, 4050>>
    [] cp = -5000 -> <<10, 103337615>>
    [] cp = -1000 -> <<24552563, 658567762>>
    [] cp = -300 -> <<248874499, 61651599>>
    [] cp = -151 -> <<364474858, 1569812>>
    [] cp = -150 -> <<365328173, 854965354>>
    [] cp = -100 -> <<408974102, 808387141>>
    [] cp = -99 -> <<409864411, 540853790>>
    [] cp = -50 -> <<454103562, 397001003>>
    [] cp = -1 -> <<499079481, 40010763>>
    [] cp = 0 -> <<500000000, 0>>
    [] cp = 1 -> <<500920518, 959989236>>
    [] cp = 50 -> <<545896437, 602998996>>
    [] cp = 99 -> <<590135588, 459146154>>
    [] cp = 100 -> <<591025897, 191612803>>
    [] cp = 150 -> <<634671826, 145034700>>
    [] cp = 151 -> <<635525141, 998430131>>
    [] cp = 300 -> <<751125500, 938348400>>
    [] cp = 1000 -> <<975447436, 341432272>>
    [] cp = 5000 -> <<999999989, 896662389>>
    [] cp = 9000 -> <<999999999, 999996003>>
    [] cp = 9001 -> <<999999999, 999996003>>
    [] cp = 9990 -> <<1000000000, 0>>
    [] cp = 10000 -> <<1000000000, 0>>

\* the exponent taken with the wrong sign
MutCentipawnsToWinPercent(cp) ==
  IF cp > 10000 THEN Exact(Unit)
  ELSE IF cp < -10000 THEN Exact(0)
  ELSE Logistic(-cp)

\* centipawnsToWinPercent(cp), as a fraction of 100
CentipawnsToWinPercent(cp) ==
  IF cp > 10000 THEN Exact(Unit)
  ELSE IF cp < -10000 THEN Exact(0)
  ELSE Logistic(cp)

\* centipawnsToWinPercent(cp) / 100, in thousandths
CentipawnsToWinProbability(cp) == Permille(CentipawnsToWinPercent(cp))

Max(a, b) == IF a >= b THEN a ELSE b
Min(a, b) == IF a <= b THEN a ELSE b

\* the difference without the floor at 0
MutCalculateExpectedPointsLost(before, after) == before - after

\* Math.max(0, winChanceBefore - winChanceAfter)
CalculateExpectedPointsLost(before, after) == Max(0, before - after)

AdjustForMateDistance(epl, mateInBefore, mateInAfter) ==
  IF IsSet(mateInBefore) /\ ~IsSet(mateInAfter) THEN Max(epl, 500)
  ELSE IF ~IsSet(mateInBefore) /\ IsSet(mateInAfter) THEN 0
  ELSE IF IsSet(mateInBefore) /\ IsSet(mateInAfter)
    THEN IF mateInBefore[1] > 0 /\ mateInAfter[1] < 0 THEN 1000
         ELSE IF mateInBefore[1] > 0 /\ mateInAfter[1] > 0
                   /\ mateInAfter[1] > mateInBefore[1]
           THEN Min(epl + 50, 100)
         ELSE epl
  ELSE epl

\* --------------------------------------------------------- position-utils
\* materialBefore - materialAfter >= 2
DetectSacrifice(before, after, color) ==
  CalculateMaterial(before, color) - CalculateMaterial(after, color) >= 2

\* determineGamePhase(moveNumber, fen), p the position the fen describes
DetermineGamePhase(moveNumber, p) ==
  IF moveNumber <= OpeningMoves THEN "opening"
  ELSE IF CalculateMaterial(p, "w") + CalculateMaterial(p, "b") <= 13 THEN "endgame"
  ELSE "middlegame"

IsPositionCompetitive(winChance) == winChance >= 200 /\ winChance <= 800
\* 0.75 itself taken as winning
MutIsPositionWinning(winChance) == winChance >= 750
IsPositionWinning(winChance) == winChance > 750
IsPositionLosing(winChance) == winChance < 250

\* --------------------------------------------------------- move-classifier
\* CLASSIFICATION_THRESHOLDS, in thousandths
CLASSIFICATION_THRESHOLDS ==
  [BLUNDER_EPL |-> 200, MISTAKE_EPL |-> 100, INACCURACY_EPL |-> 50,
   BEST |-> 1, EXCELLENT |-> 20, GOOD |-> 50,
   DECISIVE_WIN_PROB |-> 800, DECISIVE_LOSE_PROB |-> 200]

\* the last three tests of classifyMove and its default
GoodTier(p) ==
  IF p.isBestMove /\ p.expectedPointsLost < CLASSIFICATION_THRESHOLDS.BEST THEN "best"
  ELSE IF p.expectedPointsLost <= CLASSIFICATION_THRESHOLDS.EXCELLENT THEN "excellent"
  ELSE IF p.expectedPointsLost <= CLASSIFICATION_THRESHOLDS.GOOD THEN "good"
  ELSE "inaccuracy"

\* 'miss' tested before 'missed_mate'
MutFirstTiers(p) ==
  IF p.missedOpportunity THEN "miss"
  ELSE IF IsSet(p.mateInBefore) /\ ~IsSet(p.mateInAfter) THEN "missed_mate"
  ELSE "none"

\* the first two tests of classifyMove
FirstTiers(p) ==
  IF IsSet(p.mateInBefore) /\ ~IsSet(p.mateInAfter) THEN "missed_mate"
  ELSE IF p.missedOpportunity THEN "miss"
  ELSE "none"

\* a position on the threshold itself is not taken as decisive
MutWasDecisive(winChanceBefore) ==
  \/ winChanceBefore > CLASSIFICATION_THRESHOLDS.DECISIVE_WIN_PROB
  \/ winChanceBefore < CLASSIFICATION_THRESHOLDS.DECISIVE_LOSE_PROB

\* wasDecisive of classifyMove
WasDecisive(winChanceBefore) ==
  \/ winChanceBefore >= CLASSIFICATION_THRESHOLDS.DECISIVE_WIN_PROB
  \/ winChanceBefore <= CLASSIFICATION_THRESHOLDS.DECISIVE_LOSE_PROB

\* classifyMove(params)
ClassifyMove(p) ==
  LET wasDecisive == WasDecisive(p.winChanceBefore)
      effectiveEPL == IF wasDecisive THEN 0 ELSE p.expectedPointsLost
  IN IF FirstTiers(p) # "none" THEN FirstTiers(p)
     ELSE IF /\ p.isSacrifice
             /\ p.expectedPointsLost <= CLASSIFICATION_THRESHOLDS.EXCELLENT
             /\ IsPositionCompetitive(p.winChanceBefore)
             /\ ~IsPositionWinning(p.winChanceBefore)
             /\ (p.gamePhase = "endgame" => p.allAlternativesWorse)
       THEN "brilliant"
     ELSE IF /\ p.expectedPointsLost <= CLASSIFICATION_THRESHOLDS.EXCELLENT
             /\ p.allAlternativesWorse
             /\ \/ IsPositionLosing(p.winChanceBefore)
                     /\ IsPositionCompetitive(p.winChanceAfter)
                \/ IsPositionCompetitive(p.winChanceBefore)
                     /\ IsPositionWinning(p.winChanceAfter)
       THEN "great"
     ELSE IF effectiveEPL >= CLASSIFICATION_THRESHOLDS.BLUNDER_EPL THEN "blunder"
     ELSE IF effectiveEPL >= CLASSIFICATION_THRESHOLDS.MISTAKE_EPL THEN "mistake"
     ELSE IF effectiveEPL >= CLASSIFICATION_THRESHOLDS.INACCURACY_EPL THEN "inaccuracy"
     ELSE GoodTier(p)

\* ------------------------------------------------------------ opening-book
\* bookCache: the keys it has, each with its boolean.  A key is fen:move;
\* all games are on one line of play, so the key of ply i is written i.
\* outbound counts the requests sent to the explorer, spacing tells what
\* came last on the wire: nothing yet in this run, a request, or a
\* rateLimitDelay() that ran to its end.
NoBook == [cache |-> {}, outbound |-> 0, spacing |-> "none"]
CacheHas(b, key) == \E e \in b.cache : e.key = key
CacheGet(b, key) == (CHOOSE e \in b.cache : e.key = key).value
CacheSet(b, key, v) ==
  [b EXCEPT !.cache = {e \in @ : e.key # key} \cup {[key |-> key, value |-> v]}]

\* What the fetch of isBookMove can come to: a response whose moves hold
\* the move, one whose moves do not, a response that is not ok, an exception.
BookReplies == {"listed", "unlisted", "notOk", "throws"}

\* isBookMove after its fetch: the value it returns
IsBookMoveResult(reply) == reply = "listed"

\* a failure remembered as 'not book'
MutIsBookMoveCache(b, key, reply) == CacheSet(b, key, reply = "listed")

\* isBookMove after its fetch: bookCache.set only when the response was read
IsBookMoveCache(b, key, reply) ==
  IF reply \in {"listed", "unlisted"}
    THEN CacheSet(b, key, reply = "listed")
    ELSE b

\* rateLimitDelay(): setTimeout(resolve, 70) has fired
RateLimitDelay(b) == [b EXCEPT !.spacing = "delay"]

\* fetch(...) sent by isBookMove
Fetch(b) == [b EXCEPT !.outbound = @ + 1, !.spacing = "request"]

\* ------------------------------------------------------------ game-analyzer
Classifications ==
  {"brilliant", "great", "best", "excellent", "good", "book",
   "inaccuracy", "mistake", "miss", "blunder", "missed_mate"}

\* createEmptyPlayerSummary()
CreateEmptyPlayerSummary ==
  [moves |-> 0, brilliant |-> 0, great |-> 0, best |-> 0, excellent |-> 0,
   good |-> 0, book |-> 0, inaccuracies |-> 0, mistakes |-> 0, misses |-> 0,
   blunders |-> 0, missedMates |-> 0, totalExpectedPointsLost |-> 0]

\* classificationMap
ClassificationMap(c) ==
  CASE c = "inaccuracy" -> "inaccuracies"
    [] c = "mistake" -> "mistakes"
    [] c = "miss" -> "misses"
    [] c = "blunder" -> "blunders"
    [] c = "missed_mate" -> "missedMates"
    [] OTHER -> c

UpdateClassificationCount(summary, c) ==
  IF ClassificationMap(c) \in DOMAIN summary
    THEN [summary EXCEPT ![ClassificationMap(c)] = @ + 1]
    ELSE summary

\* Where an analyzeGame call stands: pc names the await it is suspended at.
\* n counts the calls made so far, job is the queue job the call works for
\* (0 when it was called directly).  evalCalls, bookCalls and writes count
\* what this call has asked of the evaluator, of isBookMove and of the store.
NoLocals ==
  [i |-> 0, stillInBook |-> TRUE, moveAnalyses |-> <<>>,
   whiteSummary |-> CreateEmptyPlayerSummary,
   blackSummary |-> CreateEmptyPlayerSummary,
   combinedSummary |-> CreateEmptyPlayerSummary,
   criticalMoments |-> 0]
NoRun ==
  [pc |-> "idle", n |-> 0, job |-> 0, gameId |-> 0, depth |-> "fast",
   evalCalls |-> 0, bookCalls |-> 0, writes |-> 0,
   error |-> Undefined, result |-> Undefined, locals |-> NoLocals]

\* analyzeGame(gameId, depthPreset) up to await Game.findById(gameId)
BeginRun(r, j, g, d) ==
  [NoRun EXCEPT !.pc = "findById", !.n = r.n + 1, !.job = j,
                !.gameId = g, !.depth = d]

\* throw new Error(message): the locals are gone
Throw(r, message) ==
  [r EXCEPT !.pc = "thrown", !.error = Some(message), !.locals = NoLocals]

\* return doc: the locals are gone
Return(r, doc) ==
  [r EXCEPT !.pc = "returned", !.result = Some(doc), !.locals = NoLocals]

\* a flag that is never cleared
MutStillInBook(isBook) == TRUE

\* if (!isBook) stillInBook = false, for a flag that was true
StillInBook(isBook) == isBook

\* an analyzer that does not look for a stored analysis
MutAlreadyAnalyzed(d, g) == FALSE

\* const existingAnalysis = await Analysis.findOne({ gameId })
AlreadyAnalyzed(d, g) == IsSet(d.analyses[g])

\* the signals of ply i, which plays move, from the evaluator's two answers:
\* the loop body from chess.reset() to missedOpportunity
PlySignals(move, i, analysisBefore, analysisAfter) ==
  LET currentPlayer == move.color
      moveNumber == ((i - 1) \div 2) + 1
      gamePhase == DetermineGamePhase(moveNumber, i - 1)
      rawEvalBefore == analysisBefore.evaluation
      rawEvalAfter == analysisAfter.evaluation
      whiteWinBefore == CentipawnsToWinProbability(rawEvalBefore)
      whiteWinAfter == CentipawnsToWinProbability(rawEvalAfter)
      winChanceBefore == IF currentPlayer = "w" THEN whiteWinBefore
                         ELSE 1000 - whiteWinBefore
      winChanceAfter == IF currentPlayer = "w" THEN whiteWinAfter
                        ELSE 1000 - whiteWinAfter
      expectedPointsLost ==
        AdjustForMateDistance(
          CalculateExpectedPointsLost(winChanceBefore, winChanceAfter),
          analysisBefore.mateIn, analysisAfter.mateIn)
      isBestMove == move.uci = analysisBefore.bestMove
      bestMoveCreatesAdvantage ==
        rawEvalBefore > 150 \/ IsSet(analysisBefore.mateIn)
      playedMoveIsNeutral == rawEvalAfter < 100 /\ rawEvalAfter > -100
  IN [moveNumber |-> moveNumber,
      move |-> move.uci,
      currentPlayer |-> currentPlayer,
      fen |-> i,
      evalBefore |-> IF currentPlayer = "w" THEN rawEvalBefore ELSE -rawEvalBefore,
      evalAfter |-> IF currentPlayer = "w" THEN rawEvalAfter ELSE -rawEvalAfter,
      winChanceBefore |-> winChanceBefore,
      winChanceAfter |-> winChanceAfter,
      expectedPointsLost |-> expectedPointsLost,
      isSacrifice |-> DetectSacrifice(i - 1, i, currentPlayer),
      isBestMove |-> isBestMove,
      gamePhase |-> gamePhase,
      mateInBefore |-> analysisBefore.mateIn,
      mateInAfter |-> analysisAfter.mateIn,
      allAlternativesWorse |-> isBestMove /\ expectedPointsLost < 5,
      missedOpportunity |-> /\ bestMoveCreatesAdvantage
                            /\ playedMoveIsNeutral
                            /\ ~isBestMove
                            /\ expectedPointsLost < 50,
      bestMove |-> analysisBefore.bestMove]

\* the signals of ply i of a game, with the answers of the evaluator
Signals(hist, i) ==
  PlySignals(hist[i], i, AnalyzePosition(i - 1), AnalyzePosition(i))

\* a player's final summary; the average is cut to whole thousandths
FinalSummary(s) ==
  [moves |-> s.moves, brilliant |-> s.brilliant, great |-> s.great,
   best |-> s.best, excellent |-> s.excellent, good |-> s.good,
   book |-> s.book, inaccuracies |-> s.inaccuracies, mistakes |-> s.mistakes,
   misses |-> s.misses, blunders |-> s.blunders, missedMates |-> s.missedMates,
   avgExpectedPointsLost |->
     IF s.moves > 0 THEN s.totalExpectedPointsLost \div s.moves ELSE 0]

\* new Analysis({ gameId, engineDepth, engineVersion, moves, summary })
AnalysisDoc(r, hist) ==
  [gameId |-> r.gameId,
   engineDepth |-> IF r.depth = "fast" THEN 15
                   ELSE IF r.depth = "balanced" THEN 20 ELSE 25,
   moves |-> r.locals.moveAnalyses,
   summary |->
     [totalMoves |-> Len(hist),
      white |-> FinalSummary(r.locals.whiteSummary),
      black |-> FinalSummary(r.locals.blackSummary),
      combined |-> FinalSummary(r.locals.combinedSummary),
      numberOfCriticalMoments |-> r.locals.criticalMoments]]

\* the tally of a ply that counts a book move among the moves as well
MutTally(s, classification, epl) ==
  [UpdateClassificationCount(s, classification) EXCEPT
     !.totalExpectedPointsLost = @ + epl, !.moves = @ + 1]

\* updateClassificationCount, and for a ply that is not 'book' its
\* expected points and the move count
Tally(s, classification, epl) ==
  IF classification # "book"
    THEN [UpdateClassificationCount(s, classification) EXCEPT
            !.totalExpectedPointsLost = @ + epl, !.moves = @ + 1]
    ELSE UpdateClassificationCount(s, classification)

\* a critical moment told by the loss alone
MutIsCritical(epl, classification) == epl >= 150

\* expectedPointsLost >= 0.15 || classification === 'brilliant' ||
\* classification === 'great'
IsCritical(epl, classification) ==
  \/ epl >= 150
  \/ classification = "brilliant"
  \/ classification = "great"

\* for (let i = 0; i < history.length; i++), i counted from 1 here
LastPly(hist, i) == i >= Len(hist)

\* The rest of the loop body for ply i once isBook is known: classify,
\* count, push the record; then the next ply up to its first
\* analyzePosition, or after the last ply up to await analysisDoc.save().
FinishPly(r, hist, isBook, stillInBook) ==
  LET i == r.locals.i
      s == Signals(hist, i)
      classification == IF isBook THEN "book" ELSE ClassifyMove(s)
      isCritical == IsCritical(s.expectedPointsLost, classification)
      record ==
        [moveNumber |-> s.moveNumber, move |-> s.move, fen |-> s.fen,
         evalBefore |-> s.evalBefore, evalAfter |-> s.evalAfter,
         winChanceBefore |-> s.winChanceBefore,
         winChanceAfter |-> s.winChanceAfter,
         expectedPointsLost |-> s.expectedPointsLost,
         classification |-> classification, isBook |-> isBook,
         gamePhase |-> s.gamePhase, bestMove |-> s.bestMove,
         isSacrifice |-> s.isSacrifice,
         isOnlyGoodMove |-> s.allAlternativesWorse,
         isCritical |-> isCritical]
      l == [r.locals EXCEPT
              !.stillInBook = stillInBook,
              !.whiteSummary =
                 IF s.currentPlayer = "w"
                   THEN Tally(@, classification, s.expectedPointsLost) ELSE @,
              !.blackSummary =
                 IF s.currentPlayer = "b"
                   THEN Tally(@, classification, s.expectedPointsLost) ELSE @,
              !.combinedSummary = Tally(@, classification, s.expectedPointsLost),
              !.criticalMoments = IF isCritical THEN @ + 1 ELSE @,
              !.moveAnalyses = Append(@, record)]
  IN IF LastPly(hist, i)
       THEN [r EXCEPT !.pc = "saveAnalysis", !.locals = l]
       ELSE [r EXCEPT !.pc = "evalBefore", !.evalCalls = @ + 1,
                      !.locals = [l EXCEPT !.i = i + 1]]

\* analyzeGame called directly, as the controllers and the CLI do, once the
\* call before it has settled
AnalyzeGame(g, d) ==
  /\ run.pc \in {"idle", "returned", "thrown"}
  /\ run.n < MaxRuns
  /\ run' = BeginRun(run, 0, g, d)
  /\ book' = [book EXCEPT !.spacing = "none"]
  /\ UNCHANGED db
  /\ UNCHANGED qvars

\* await Game.findById(gameId) resolves
FindByIdResolves ==
  /\ run.pc = "findById"
  /\ run' = IF ~db.games[run.gameId].exists
              THEN Throw(run, "Game not found")
              ELSE [run EXCEPT !.pc = "findOne"]
  /\ UNCHANGED <<db, book>>
  /\ UNCHANGED qvars

\* await Analysis.findOne({ gameId }) resolves; then loadPgn and history,
\* up to await getStockfishEngine()
FindOneResolves ==
  /\ run.pc = "findOne"
  /\ run' = IF AlreadyAnalyzed(db, run.gameId)
              THEN Return(run, db.analyses[run.gameId][1])
            ELSE IF LoadPgnThrows(db.games[run.gameId].pgn)
              THEN Throw(run, "Invalid PGN")
            ELSE IF Len(History(db.games[run.gameId].pgn)) = 0
              THEN Throw(run, "No moves found in game")
            ELSE [run EXCEPT !.pc = "engine"]
  /\ UNCHANGED <<db, book>>
  /\ UNCHANGED qvars

\* await getStockfishEngine() settles; the loop starts and asks for the
\* position before the first ply
EngineResolves(ok) ==
  /\ run.pc = "engine"
  /\ run' = IF ok
              THEN [run EXCEPT !.pc = "evalBefore", !.evalCalls = @ + 1,
                               !.locals.i = 1]
              ELSE Throw(run, "Stockfish failed to initialize (timeout)")
  /\ UNCHANGED <<db, book>>
  /\ UNCHANGED qvars

\* await stockfish.analyzePosition(fenBefore, depthPreset) settles; the move
\* is made and the position after it is asked for
EvalBeforeResolves(ok) ==
  /\ run.pc = "evalBefore"
  /\ run' = IF ok
              THEN [run EXCEPT !.pc = "evalAfter", !.evalCalls = @ + 1]
              ELSE Throw(run, "Analysis timeout")
  /\ UNCHANGED <<db, book>>
  /\ UNCHANGED qvars

\* await stockfish.analyzePosition(fenAfter, depthPreset) settles; the
\* signals are computed, and isBookMove is called if (stillInBook &&
\* gamePhase === 'opening'): it answers from bookCache or sends its fetch
EvalAfterResolves(ok) ==
  /\ run.pc = "evalAfter"
  /\ LET hist == History(db.games[run.gameId].pgn)
         i == run.locals.i
     IN IF ~ok
          THEN run' = Throw(run, "Analysis timeout") /\ book' = book
        ELSE IF run.locals.stillInBook /\ Signals(hist, i).gamePhase = "opening"
          THEN IF CacheHas(book, i)
                 THEN /\ run' = FinishPly([run EXCEPT !.bookCalls = @ + 1], hist,
                                          CacheGet(book, i),
                                          StillInBook(CacheGet(book, i)))
                      /\ book' = book
                 ELSE /\ run' = [run EXCEPT !.pc = "fetch", !.bookCalls = @ + 1]
                      /\ book' = Fetch(book)
        ELSE /\ run' = FinishPly(run, hist, FALSE, run.locals.stillInBook)
             /\ book' = book
  /\ UNCHANGED db
  /\ UNCHANGED qvars

\* the fetch of isBookMove settles; isBook = await isBookMove(...), and
\* if (!isBook) stillInBook = false
FetchResolves(reply) ==
  /\ run.pc = "fetch"
  /\ book' = IsBookMoveCache(book, run.locals.i, reply)
  /\ run' = FinishPly(run, History(db.games[run.gameId].pgn),
                      IsBookMoveResult(reply),
                      StillInBook(IsBookMoveResult(reply)))
  /\ UNCHANGED db
  /\ UNCHANGED qvars

\* a save that stores nothing
MutSaveAnalysis(d, g, doc) == d

\* analysisDoc.save(): the document is in the collection, under its game
SaveAnalysis(d, g, doc) == [d EXCEPT !.analyses[g] = Some(doc)]

\* await analysisDoc.save() settles: gameId is unique in the collection
SaveAnalysisResolves ==
  /\ run.pc = "saveAnalysis"
  /\ IF IsSet(db.analyses[run.gameId])
       THEN /\ run' = Throw(run, "E11000 duplicate key error")
            /\ db' = db
       ELSE /\ run' = [run EXCEPT !.pc = "saveGame", !.writes = @ + 1]
            /\ db' = SaveAnalysis(db, run.gameId,
                                  AnalysisDoc(run, History(db.games[run.gameId].pgn)))
  /\ UNCHANGED book
  /\ UNCHANGED qvars

\* game.analyzed = true; await game.save() settles; return analysisDoc
SaveGameResolves ==
  /\ run.pc = "saveGame"
  /\ db' = [db EXCEPT !.games[run.gameId].analyzed = TRUE]
  /\ run' = Return([run EXCEPT !.writes = @ + 1],
                   AnalysisDoc(run, History(db.games[run.gameId].pgn)))
  /\ UNCHANGED book
  /\ UNCHANGED qvars

\* --------------------------------------------- the worker and its analysis
\* The call of analyzeGame that a pass of the worker loop made in this step,
\* if it took a job; otherwise no call is in progress.
WorkerRun(r, ws, ws2, h2) ==
  IF ws2 \ ws # {}
    THEN LET j == CHOOSE k \in ws2 \ ws : TRUE
         IN BeginRun(r, j, h2[j].gameId, h2[j].depth)
    ELSE [NoRun EXCEPT !.n = r.n]

\* addJob; when it starts the worker, the worker calls analyzeGame
SubmitJob(g) ==
  /\ EnqueueJob(g, "fast")
  /\ run' = IF workers' # workers
              THEN WorkerRun(run, workers, workers', heap') ELSE run
  /\ book' = IF workers' # workers THEN [book EXCEPT !.spacing = "none"] ELSE book
  /\ UNCHANGED db

\* const result = await analysisService.analyzeGame(...) returns to the worker
RunReturns ==
  /\ run.pc = "returned"
  /\ run.job \in workers
  /\ WorkerCompletes(run.job)
  /\ run' = WorkerRun(run, workers \ {run.job}, workers', heap')
  /\ book' = [book EXCEPT !.spacing = "none"]
  /\ UNCHANGED db

\* the call throws into the worker's catch clause
RunThrows ==
  /\ run.pc = "thrown"
  /\ run.job \in workers
  /\ WorkerCatches(run.job, [isError |-> TRUE, message |-> run.error[1]])
  /\ run' = WorkerRun(run, workers \ {run.job}, workers', heap')
  /\ book' = [book EXCEPT !.spacing = "none"]
  /\ UNCHANGED db

\* ---------------------------------------------------------- pure functions
\* The inputs classifyMove is tried on.
ClassifyInputs ==
  [expectedPointsLost : {0, 10, 20, 40, 50, 99, 100, 199, 200, 500},
   winChanceBefore : {50, 200, 240, 500, 550, 750, 760, 800, 950},
   winChanceAfter : {50, 300, 500, 760, 950},
   isSacrifice : BOOLEAN,
   isBestMove : BOOLEAN,
   gamePhase : {"opening", "middlegame", "endgame"},
   mateInBefore : {Undefined, Some(4)},
   mateInAfter : {Undefined, Some(3)},
   allAlternativesWorse : BOOLEAN,
   missedOpportunity : BOOLEAN]

\* classifyMove(params) called on the input that run holds
Classify ==
  /\ run.pc = "input"
  /\ run' = [run EXCEPT !.pc = "classified",
                        !.result = Some(ClassifyMove(run.locals))]
  /\ UNCHANGED <<db, book>>
  /\ UNCHANGED qvars

\* The answers of the evaluator that one ply is tried on: a score in
\* centipawns, or a forced mate for White (mateIn > 0) or Black (mateIn < 0)
\* with the score analyzePosition gives it; bestMove is a move of best.
SignalCps == {-300, -151, -150, -100, -99, 0, 50, 99, 100, 150, 151, 300, 1000}
Mates == {-3, -2, 2, 3}
EvaluatorResults(best) ==
  {[evaluation |-> e, mateIn |-> Undefined, bestMove |-> b] :
     e \in SignalCps, b \in best}
  \cup {[evaluation |-> IF m > 0 THEN 100000 ELSE -100000,
         mateIn |-> Some(m), bestMove |-> b] : m \in Mates, b \in best}

\* a ply of White (the third) or of Black (the fourth), the move it plays
\* being the evaluator's best move or not
SignalInputs ==
  UNION {[i : {i}, before : EvaluatorResults({0, i}),
          after : EvaluatorResults({0})] : i \in {3, 4}}

\* one pass through the loop body up to missedOpportunity, on the ply that
\* run holds
ComputeSignals ==
  /\ run.pc = "ply"
  /\ LET in == run.locals
         move == [color |-> IF in.i % 2 = 1 THEN "w" ELSE "b", uci |-> in.i]
     IN run' = [run EXCEPT
                  !.pc = "signals",
                  !.result = Some(PlySignals(move, in.i, in.before, in.after))]
  /\ UNCHANGED <<db, book>>
  /\ UNCHANGED qvars

\* The scores centipawnsToWinPercent is tried on, by pairs: the tabulated
\* ones and mate scores on both sides of the sentinel.
ScoreInputs ==
  [lo : LogisticCps \cup {-100000, -10001, 10001, 100000},
   hi : LogisticCps \cup {-100000, -10001, 10001, 100000}]

\* centipawnsToWinPercent and centipawnsToWinProbability called on the two
\* scores that run holds
ConvertScores ==
  /\ run.pc = "scores"
  /\ run' = [run EXCEPT
               !.pc = "converted",
               !.result =
                  Some([lo |-> CentipawnsToWinPercent(run.locals.lo),
                        hi |-> CentipawnsToWinPercent(run.locals.hi),
                        probability |->
                          CentipawnsToWinProbability(run.locals.lo)])]
  /\ UNCHANGED <<db, book>>
  /\ UNCHANGED qvars

\* ----------------------------------------------------------- specification
QueueInit ==
  /\ queue = <<>>
  /\ heap = <<>>
  /\ isProcessing = FALSE
  /\ workers = {}
  /\ now = 0
  /\ last = NoCall

\* the queue alone: no analysis is followed
Init ==
  /\ QueueInit
  /\ db = NoStore
  /\ run = NoRun
  /\ book = NoBook

\* addJob(gameId): the depth parameter takes its default, 'fast'
Next ==
  \/ \E g \in GameIds : AddJob(g, "fast")
  \/ \E j \in workers : AnalysisReturns(j)
  \/ \E j \in workers, e \in Thrown : AnalysisThrows(j, e)
  \/ \E g \in GameIds : RemoveJob(g)
  \/ ClearFinishedJobs
  \/ ClearAllJobs
  \/ Tick

Spec == Init /\ [][Next]_vars

\* The queue API of the specification document: no clearAllJobs.
NextApi ==
  \/ \E g \in GameIds : AddJob(g, "fast")
  \/ \E j \in workers : AnalysisReturns(j)
  \/ \E j \in workers, e \in Thrown : AnalysisThrows(j, e)
  \/ \E g \in GameIds : RemoveJob(g)
  \/ ClearFinishedJobs
  \/ Tick

SpecApi == Init /\ [][NextApi]_vars

\* addJob(gameId, depth) with the depth chosen by the caller
NextDepth ==
  \/ \E g \in GameIds, d \in QueueDepths : AddJob(g, d)
  \/ \E j \in workers : AnalysisReturns(j)
  \/ \E j \in workers : AnalysisThrows(j, [isError |-> TRUE, message |-> "Analysis timeout"])
  \/ \E g \in GameIds : RemoveJob(g)
  \/ ClearFinishedJobs
  \/ ClearAllJobs
  \/ Tick

SpecDepth == Init /\ [][NextDepth]_vars

\* Every analyzeGame run ends, by returning or by throwing, and the event
\* loop then runs the worker's continuation.
AnalysisSettles ==
  \E j \in workers : AnalysisReturns(j) \/ \E e \in Thrown : AnalysisThrows(j, e)

\* The queue with all of its methods, the clock standing still, under a
\* fair scheduler.
NextLive ==
  \/ \E g \in GameIds : AddJob(g, "fast")
  \/ \E j \in workers : AnalysisReturns(j)
  \/ \E j \in workers : AnalysisThrows(j, [isError |-> TRUE, message |-> "Analysis timeout"])
  \/ \E g \in GameIds : RemoveJob(g)
  \/ ClearFinishedJobs
  \/ ClearAllJobs

FairSpec == Init /\ [][NextLive]_vars /\ WF_vars(AnalysisSettles)

\* The same without clearAllJobs.
NextLiveApi ==
  \/ \E g \in GameIds : AddJob(g, "fast")
  \/ \E j \in workers : AnalysisReturns(j)
  \/ \E j \in workers : AnalysisThrows(j, [isError |-> TRUE, message |-> "Analysis timeout"])
  \/ \E g \in GameIds : RemoveJob(g)
  \/ ClearFinishedJobs

FairSpecApi == Init /\ [][NextLiveApi]_vars /\ WF_vars(AnalysisSettles)

\* The queue with its estimate: addJob with a depth, the worker, the
\* removals of the queue API, and getEstimatedTime asked at any moment.
NextEstimate ==
  \/ \E g \in GameIds, d \in QueueDepths : AddJob(g, d)
  \/ \E j \in workers : AnalysisReturns(j)
  \/ \E j \in workers : AnalysisThrows(j, [isError |-> TRUE, message |-> "Analysis timeout"])
  \/ \E g \in GameIds : RemoveJob(g)
  \/ ClearFinishedJobs
  \/ \E g \in GameIds : GetEstimatedTime(g)

SpecEstimate == Init /\ [][NextEstimate]_vars

\* analyzeGame called directly, MaxRuns times, on a store whose first game
\* is absent, cannot be parsed, has no moves, or is a short game
InitAnalyzer ==
  /\ QueueInit
  /\ db \in {Store(GameDoc(FALSE, "short"))}
              \cup {Store(GameDoc(TRUE, k)) : k \in {"malformed", "empty", "short"}}
  /\ run = NoRun
  /\ book = NoBook

RunSteps ==
  \/ FindByIdResolves
  \/ FindOneResolves
  \/ \E ok \in BOOLEAN : EngineResolves(ok)
  \/ \E ok \in BOOLEAN : EvalBeforeResolves(ok)
  \/ \E ok \in BOOLEAN : EvalAfterResolves(ok)
  \/ \E reply \in BookReplies : FetchResolves(reply)
  \/ SaveAnalysisResolves
  \/ SaveGameResolves

NextAnalyzer ==
  \/ \E g \in GameIds : AnalyzeGame(g, "fast")
  \/ RunSteps

SpecAnalyzer == InitAnalyzer /\ [][NextAnalyzer]_vars

\* one analysis of the game that runs past the opening
InitOpening ==
  /\ QueueInit
  /\ db = Store(GameDoc(TRUE, "long"))
  /\ run = NoRun
  /\ book = NoBook

NextOpening ==
  \/ run.n = 0 /\ AnalyzeGame(1, "fast")
  \/ RunSteps

SpecOpening == InitOpening /\ [][NextOpening]_vars

\* the queue with the analyses its worker runs, step by step
NextPipeline ==
  \/ \E g \in GameIds : SubmitJob(g)
  \/ RunSteps
  \/ RunReturns
  \/ RunThrows

SpecPipeline == Init /\ [][NextPipeline]_vars

\* classifyMove on each of its inputs
InitClassify ==
  /\ QueueInit
  /\ db = NoStore
  /\ book = NoBook
  /\ run \in {[NoRun EXCEPT !.pc = "input", !.locals = p] : p \in ClassifyInputs}

NextClassify == Classify

SpecClassify == InitClassify /\ [][NextClassify]_vars

\* One ply's signals on every input.
InitSignals ==
  /\ QueueInit
  /\ db = NoStore
  /\ book = NoBook
  /\ run \in {[NoRun EXCEPT !.pc = "ply", !.locals = in] : in \in SignalInputs}

NextSignals == ComputeSignals

SpecSignals == InitSignals /\ [][NextSignals]_vars

\* The score conversion on every pair of scores.
InitScores ==
  /\ QueueInit
  /\ db = NoStore
  /\ book = NoBook
  /\ run \in {[NoRun EXCEPT !.pc = "scores", !.locals = in] : in \in ScoreInputs}

NextScores == ConvertScores

SpecScores == InitScores /\ [][NextScores]_vars

TypeOK ==
  /\ isProcessing \in BOOLEAN
  /\ now \in 0..MaxClock
  /\ Len(heap) <= MaxJobs
  /\ workers \subseteq 1..Len(heap)
  /\ \A i \in 1..Len(queue) : queue[i].key \in GameIds /\ queue[i].job \in 1..Len(heap)
  /\ \A j \in 1..Len(heap) : heap[j].status \in Statuses \cup {"removed", "dropped"} /\ heap[j].depth \in Depths

\* ------------------------------------------------------------------ claims
Processing == {i \in 1..Len(queue) : heap[queue[i].job].status = "processing"}
NonTerminalIn(q, h, g) == HasKey(q, g) /\ ~IsTerminal(h[MapGet(q, g)].status)
TerminalIn(q, h, g) == HasKey(q, g) /\ IsTerminal(h[MapGet(q, g)].status)

\* C1: in every reachable state, clearAllJobs included, at most one job of
\* the table has status 'processing' and at most one analyzeGame run is in
\* flight.
C1_SingleWorker ==
  /\ Cardinality(Processing) <= 1
  /\ Cardinality(workers) <= 1

\* C2: under addJob calls arriving while the worker is idle, busy or going
\* idle (the queue API without clearAllJobs), there is never more than one
\* live processQueue loop, and isProcessing is true exactly while one is live.
C2_OneWorkerLoop ==
  /\ Cardinality(workers) <= 1
  /\ isProcessing <=> workers # {}

\* addJob arrived while a job was in flight: the new job waits, and there
\* is still one loop
C2_Witness ==
  /\ last.op = "addJob"
  /\ heap[last.job].status = "queued"
  /\ Cardinality(workers) = 1
  /\ \E j \in 1..Len(heap) : heap[j].status = "failed"

\* C3: addJob for a gameId whose job in the table is queued or processing
\* returns that job and changes neither the table nor any field of any job,
\* whatever depth it passes; the table holds one entry for the gameId.
C3_IdempotentSubmit ==
  [][\A g \in GameIds, d \in QueueDepths :
       (NonTerminalIn(queue, heap, g) /\ AddJob(g, d)) =>
         /\ last'.job = MapGet(queue, g)
         /\ queue' = queue
         /\ heap' = heap
         /\ Cardinality({i \in 1..Len(queue') : queue'[i].key = g}) = 1]_vars

\* a repeated addJob with another depth returned the existing queued job
C3_Witness ==
  /\ last.op = "addJob"
  /\ HasKey(queue, last.gameId)
  /\ MapGet(queue, last.gameId) = last.job
  /\ heap[last.job].status = "queued"
  /\ heap[last.job].depth # last.depth

\* C4: addJob for a gameId whose only job is completed or failed creates a
\* new job, queued or already taken by the woken worker, and returns it.
C4_ResubmitAfterTerminal ==
  [][\A g \in GameIds :
       (TerminalIn(queue, heap, g) /\ AddJob(g, "fast")) =>
         /\ last'.job # MapGet(queue, g)
         /\ MapGet(queue', g) = last'.job
         /\ heap'[last'.job].status \in {"queued", "processing"}]_vars

\* position of job j in the table
Pos(q, j) == CHOOSE i \in 1..Len(q) : q[i].job = j

\* the jobs that reach 'processing' in this step
Started == {b \in 1..Len(heap') :
              /\ heap'[b].status = "processing"
              /\ (b > Len(heap) \/ heap[b].status = "queued")}

\* C5: a job that the worker takes is older than every job left queued in
\* the table: smaller createdAt, or the same createdAt and earlier in the
\* table; and it was submitted (created) before every one of them.
C5_FifoOrder ==
  [][\A b \in Started : \A a \in InTable(queue') :
       heap'[a].status = "queued" =>
         /\ b \in InTable(queue')
         /\ \/ heap'[b].createdAt < heap'[a].createdAt
            \/ /\ heap'[b].createdAt = heap'[a].createdAt
               /\ Pos(queue', b) < Pos(queue', a)
         /\ b < a]_vars

\* the worker finished a job and chose between two queued jobs, created at
\* different times
C5_Witness ==
  /\ last.op \in {"analysisReturns", "analysisThrows"}
  /\ \E a, b \in InTable(queue) :
       /\ heap[b].status = "processing"
       /\ heap[b].startedAt = heap[last.job].completedAt
       /\ heap[a].status = "queued"
       /\ heap[b].createdAt < heap[a].createdAt

\* C6: a job object only moves queued -> processing -> completed | failed,
\* keeping its other fields; a completed or failed job never changes again;
\* all that happens to it besides is that the table lets go of it.
C6_MonotoneStatus ==
  [][/\ \A j \in 1..Len(heap) :
          \/ heap'[j] = heap[j]
          \/ /\ heap[j].status = "queued"
             /\ heap'[j].status = "processing"
             /\ heap'[j] = [heap[j] EXCEPT !.status = "processing",
                                           !.startedAt = heap'[j].startedAt]
          \/ /\ heap[j].status = "processing"
             /\ heap'[j].status \in {"completed", "failed"}
             /\ heap'[j].gameId = heap[j].gameId
             /\ heap'[j].depth = heap[j].depth
             /\ heap'[j].createdAt = heap[j].createdAt
             /\ heap'[j].startedAt = heap[j].startedAt
          \/ /\ heap[j].status # "processing"
             /\ IsGone(heap'[j])
             /\ j \notin InTable(queue')
     /\ \A j \in (Len(heap) + 1)..Len(heap') :
          heap'[j].status \in {"queued", "processing"}]_vars

\* a failed job still in the table, unchanged, after the worker has gone
\* on to complete a later job
C6_Witness ==
  /\ last.op = "analysisReturns"
  /\ \E j \in InTable(queue) :
       /\ heap[j].status = "failed"
       /\ j < last.job
       /\ heap[last.job].status = "completed"

\* C7: every job of the table has startedAt iff it is not queued,
\* completedAt iff it is completed or failed, error only if failed and
\* resultId only if completed.
C7_ConsistentFields ==
  \A j \in InTable(queue) :
    /\ IsSet(heap[j].startedAt) <=> heap[j].status # "queued"
    /\ IsSet(heap[j].completedAt) <=> IsTerminal(heap[j].status)
    /\ IsSet(heap[j].error) => heap[j].status = "failed"
    /\ IsSet(heap[j].resultId) => heap[j].status = "completed"

\* a reader finds a failed, a processing and a queued job side by side
C7_Witness ==
  \E a, b, c \in InTable(queue) :
    /\ heap[a].status = "failed" /\ IsSet(heap[a].error)
    /\ heap[b].status = "processing" /\ ~IsSet(heap[b].completedAt)
    /\ heap[c].status = "queued"

\* the queued jobs of the table once the failed job j has been written back
Waiting(j) == {k \in InTable(queue') \ {j} : heap[k].status = "queued"}

\* C8: when analyzeGame throws for job j, j becomes failed with completedAt
\* and the error's message; the loop takes the job submitted first among the
\* queued ones, or goes idle when there is none; no other job changes.
C8_FailureIsolated ==
  [][\A j \in workers, e \in Thrown :
       AnalysisThrows(j, e) =>
         /\ heap'[j] = [heap[j] EXCEPT !.status = "failed",
                                       !.completedAt = Some(now),
                                       !.error = Some(IF e.isError THEN e.message
                                                      ELSE "Unknown error")]
         /\ MapGet(queue', heap[j].gameId) = j
         /\ IF Waiting(j) = {}
              THEN workers' = workers \ {j} /\ isProcessing' = FALSE
              ELSE \E k \in Waiting(j) :
                     /\ \A a \in Waiting(j) : k <= a
                     /\ heap'[k] = [heap[k] EXCEPT !.status = "processing",
                                                   !.startedAt = Some(now)]
                     /\ workers' = (workers \ {j}) \cup {k}
                     /\ isProcessing' = isProcessing
         /\ \A k \in (InTable(queue') \cup workers') \ {j} :
              heap'[k] = heap[k] \/ (k \in workers' \ workers)]_vars

\* a job has failed, the loop has taken the next one, and a third job is
\* still queued as it was
C8_Witness ==
  /\ last.op = "analysisThrows"
  /\ heap[last.job].status = "failed"
  /\ IsSet(heap[last.job].error)
  /\ \E k \in workers, a \in InTable(queue) :
       /\ heap[k].startedAt = heap[last.job].completedAt
       /\ heap[a].status = "queued"

\* the table as a set of entries
Entries(q) == {q[i] : i \in 1..Len(q)}

\* C10: removeJob refuses a processing job (false, nothing changes), deletes
\* exactly the entry of a queued or terminal job (true), and returns false
\* for an unknown id; clearFinishedJobs deletes exactly the completed and
\* failed entries and returns how many; the jobs that stay are unchanged.
C10_Removal ==
  [][/\ \A g \in GameIds :
          RemoveJob(g) =>
            IF HasKey(queue, g) /\ heap[MapGet(queue, g)].status = "processing"
              THEN last'.ok = FALSE /\ queue' = queue /\ heap' = heap
              ELSE /\ last'.ok = HasKey(queue, g)
                   /\ Entries(queue') = {e \in Entries(queue) : e.key # g}
                   /\ Len(queue') = Cardinality(Entries(queue'))
                   /\ \A j \in InTable(queue') \cup workers : heap'[j] = heap[j]
     /\ ClearFinishedJobs =>
          /\ Entries(queue') =
               {e \in Entries(queue) : ~IsTerminal(heap[e.job].status)}
          /\ Len(queue') = Cardinality(Entries(queue'))
          /\ last'.n = Len(queue) - Len(queue')
          /\ \A j \in InTable(queue') \cup workers : heap'[j] = heap[j]]_vars

\* removeJob was refused for the job in flight, which is still in the table
C10_Witness ==
  /\ last.op = "removeJob"
  /\ last.ok = FALSE
  /\ HasKey(queue, last.gameId)
  /\ heap[MapGet(queue, last.gameId)].status = "processing"
  /\ MapGet(queue, last.gameId) \in workers

\* C9: under fair scheduling of the worker, every job that was submitted is
\* in the end completed or failed, unless removeJob, clearFinishedJobs or
\* clearAllJobs took it out of the table.
C9_EveryJobFinishes ==
  \A j \in 1..MaxJobs :
    (j <= Len(heap) /\ heap[j].status \in {"queued", "processing"})
      ~> (j <= Len(heap) /\ heap[j].status \in {"completed", "failed", "removed"})

\* the queued jobs ahead of job j in FIFO order
Ahead(q, h, j) ==
  LET qj == QueuedJobs(q, h)
  IN {qj[k] : k \in {i \in 1..Len(qj) : \E m \in (i + 1)..Len(qj) : qj[m] = j}}

RECURSIVE SumOfEstimates(_, _)
SumOfEstimates(h, S) ==
  IF S = {} THEN 0
  ELSE LET j == CHOOSE x \in S : TRUE
       IN TimePerJob(h[j].depth) + SumOfEstimates(h, S \ {j})

\* C11: for a queued job getEstimatedTime returns the sum of the per-depth
\* estimates (fast 60, balanced 300, thorough 600) of the queued jobs ahead
\* of it, plus 60 when a job is processing; its own depth does not count.
C11_EstimateSumsJobsAhead ==
  [][\A g \in GameIds :
       (GetEstimatedTime(g) /\ HasKey(queue, g)
          /\ heap[MapGet(queue, g)].status = "queued") =>
         /\ last'.ok
         /\ last'.n = SumOfEstimates(heap, Ahead(queue, heap, MapGet(queue, g)))
                        + (IF Processing # {} THEN 60 ELSE 0)]_vars

\* the game the call in progress is about
Hist == History(db.games[run.gameId].pgn)

\* a call that went through the loop and returned the document it built
ReturnedFresh == run.pc = "returned" /\ run.evalCalls > 0

\* plies counted by a summary pair: moves and book of both sides
Counted(white, black) == white.moves + white.book + black.moves + black.book

Records ==
  IF run.pc = "returned" THEN run.result[1].moves ELSE run.locals.moveAnalyses

\* In every state the records classified 'book' are the records with
\* isBook, they are the first records of the list, and all of them are in
\* the opening.
BookIsPrefix ==
  run.pc \in {"evalBefore", "evalAfter", "fetch", "saveAnalysis", "saveGame",
              "returned"} =>
    \A b \in 1..Len(Records) :
      /\ Records[b].isBook <=> Records[b].classification = "book"
      /\ Records[b].isBook =>
           /\ Records[b].gamePhase = "opening"
           /\ \A a \in 1..b : Records[a].isBook

\* In every step of one analyzeGame call stillInBook is true at the first
\* ply and never goes from false to true; isBookMove is called only while
\* every earlier ply was book and the ply is in the opening.
BookLeftOnce ==
  /\ (run.pc = "engine" /\ run'.pc = "evalBefore") => run'.locals.stillInBook
  /\ (run.pc \in {"evalBefore", "evalAfter", "fetch"}
        /\ run'.pc \in {"evalBefore", "evalAfter", "fetch", "saveAnalysis"}
        /\ ~run.locals.stillInBook) => ~run'.locals.stillInBook
  /\ run'.bookCalls > run.bookCalls =>
       /\ run'.bookCalls = run.bookCalls + 1
       /\ \A a \in 1..Len(run.locals.moveAnalyses) :
            run.locals.moveAnalyses[a].isBook
       /\ run.locals.moveAnalyses # <<>> =>
            run.locals.moveAnalyses[Len(run.locals.moveAnalyses)].gamePhase
              = "opening"
       /\ run.locals.i <= 2 * OpeningMoves

\* C13: within one analyzeGame call stillInBook starts true and only changes
\* from true to false; after a ply that is not book, or past the opening, the
\* oracle is not asked again and no ply is classified 'book': the book
\* plies are a prefix of the move list, all in the opening.
C13_BookMonotone == []BookIsPrefix /\ [][BookLeftOnce]_vars

\* the game stayed in book through the opening, and the first ply after the
\* opening was classified without the oracle
C13_Witness ==
  /\ run.pc = "saveAnalysis"
  /\ Len(Records) = LongPlies
  /\ Records[LongPlies - 1].isBook
  /\ ~Records[LongPlies].isBook
  /\ Records[LongPlies].gamePhase # "opening"
  /\ run.bookCalls = LongPlies - 1

\* C14: analyzeGame for a game that has a stored analysis returns that
\* analysis, asks nothing of the evaluator or of the book oracle and writes
\* nothing: every step of such a call leaves store and book cache as they
\* are, so of two calls in sequence only the first one reaches the evaluator.
C14_StoredAnalysisReturned ==
  [][(run.pc \in {"findById", "findOne"} /\ IsSet(db.analyses[run.gameId])) =>
       /\ db' = db
       /\ book' = book
       /\ run'.evalCalls = 0 /\ run'.bookCalls = 0 /\ run'.writes = 0
       /\ run'.pc = IF run.pc = "findById" THEN "findOne" ELSE "returned"
       /\ run.pc = "findOne" => run'.result = db.analyses[run.gameId]]_vars

\* the second call on a game returned the analysis the first call stored
C14_Witness ==
  /\ run.n = 2
  /\ run.pc = "returned"
  /\ run.evalCalls = 0
  /\ IsSet(db.analyses[run.gameId])
  /\ run.result = db.analyses[run.gameId]
  /\ Len(run.result[1].moves) = ShortPlies
  /\ db.games[run.gameId].analyzed

\* the three errors analyzeGame raises before it asks the evaluator; the
\* code appends the game id, or loadPgn's error, to the first two
PreflightErrors == {"Game not found", "Invalid PGN", "No moves found in game"}

\* what analyzeGame must raise for a game document, if anything
PreflightError(game) ==
  IF ~game.exists THEN Some("Game not found")
  ELSE IF game.pgn = "malformed" THEN Some("Invalid PGN")
  ELSE IF game.pgn = "empty" THEN Some("No moves found in game")
  ELSE Undefined

\* C15: analyzeGame on an absent game fails with 'Game not found', on a
\* record that does not parse with 'Invalid PGN', on one without plies with
\* 'No moves found in game'; it fails before any evaluator call, stores no
\* analysis and leaves the game's analyzed flag as it was.
C15_PreflightFailures ==
  run.pc # "idle" =>
    LET game == db.games[run.gameId]
    IN /\ IsSet(PreflightError(game)) =>
            /\ run.pc \in {"findById", "findOne", "thrown"}
            /\ run.pc = "thrown" => run.error = PreflightError(game)
       /\ (run.pc = "thrown" /\ run.error[1] \in PreflightErrors) =>
            /\ run.error = PreflightError(game)
            /\ run.evalCalls = 0 /\ run.bookCalls = 0 /\ run.writes = 0
            /\ db.analyses[run.gameId] = Undefined
            /\ ~game.analyzed

\* a call failed on a record that does not parse, after another game was
\* analysed and stored
C15_Witness ==
  /\ run.pc = "thrown"
  /\ run.error = Some("Invalid PGN")
  /\ run.evalCalls = 0
  /\ \E g \in GameIds : IsSet(db.analyses[g]) /\ db.games[g].analyzed

\* C16: when an analyzePosition call raises, at whatever ply, analyzeGame
\* ends there with that error: no further evaluator call, nothing stored,
\* the analyzed flag unset.  The worker marks the job failed with the
\* error's message, and a failed job is never started again.
C16_EvaluatorFailureFailsJob ==
  [][/\ (run.pc \in {"evalBefore", "evalAfter"} /\ run'.pc = "thrown") =>
          /\ run'.error = Some("Analysis timeout")
          /\ run'.evalCalls = run.evalCalls
          /\ run'.job = run.job /\ run'.n = run.n
          /\ db' = db
     /\ (run.pc = "thrown" /\ ~RunThrows) => run' = run
     /\ (run.pc = "thrown" /\ RunThrows) =>
          /\ heap'[run.job].status = "failed"
          /\ heap'[run.job].error = run.error
          /\ IsSet(heap'[run.job].completedAt)
          /\ ~IsSet(heap'[run.job].resultId)
          /\ db' = db
          /\ db.analyses[run.gameId] = Undefined
          /\ ~db.games[run.gameId].analyzed
     /\ \A j \in 1..Len(heap) :
          heap[j].status = "failed" =>
            /\ heap'[j] = heap[j]
            /\ j \notin workers'
            /\ ~(run'.job = j /\ run'.n # run.n)]_vars

\* the evaluator raised at the last ply of the first job's game, after the
\* earlier plies had gone through; the job is failed, nothing is stored, and
\* the worker has gone on to the next job
C16_Witness ==
  /\ last.op = "analysisThrows"
  /\ heap[last.job].status = "failed"
  /\ heap[last.job].error = Some("Analysis timeout")
  /\ db.analyses[heap[last.job].gameId] = Undefined
  /\ ~db.games[heap[last.job].gameId].analyzed
  /\ \E e \in book.cache : e.key = ShortPlies - 1
  /\ run.n = 2 /\ run.pc = "findById" /\ run.job # last.job

\* C17: when the opening-book service fails at a ply, by a response that is
\* not ok or by an exception, isBookMove returns false and caches nothing;
\* the ply gets the classifier's tag, not 'book'; stillInBook is false from
\* there on; the analysis is not aborted and ends with all N records.
C17_BookFailureDegrades ==
  /\ []((run.pc \in {"saveAnalysis", "saveGame"} =>
           Len(run.locals.moveAnalyses) = Len(Hist))
        /\ (ReturnedFresh => Len(run.result[1].moves) = Len(Hist)))
  /\ [][/\ run.pc = "fetch" => run'.pc \in {"evalBefore", "saveAnalysis"}
        /\ \A reply \in {"notOk", "throws"} :
             FetchResolves(reply) =>
               /\ book'.cache = book.cache
               /\ Len(run'.locals.moveAnalyses) = run.locals.i
               /\ ~run'.locals.moveAnalyses[run.locals.i].isBook
               /\ run'.locals.moveAnalyses[run.locals.i].classification
                    = ClassifyMove(Signals(Hist, run.locals.i))
               /\ run'.locals.moveAnalyses[run.locals.i].classification # "book"
               /\ ~run'.locals.stillInBook
               /\ run'.evalCalls = run.evalCalls
                    + (IF run.locals.i < Len(Hist) THEN 1 ELSE 0)]_vars

\* the service failed at the second ply of the first analysis, after a book
\* move at the first; the analysis came back complete, and the cache holds
\* nothing for the second ply
C17_Witness ==
  /\ run.n = 1
  /\ ReturnedFresh
  /\ Len(run.result[1].moves) = ShortPlies
  /\ run.result[1].moves[1].isBook
  /\ ~run.result[1].moves[2].isBook
  /\ CacheHas(book, 1) /\ CacheGet(book, 1)
  /\ ~CacheHas(book, 2)
  /\ run.bookCalls = 2

\* C18: between two consecutive requests that one analysis sends to the
\* opening-book service a rateLimitDelay() runs: no request goes out while
\* the last thing on the wire was a request.
C18_LookupsThrottled ==
  [][book'.outbound > book.outbound => book.spacing # "request"]_vars

\* the tags classifyMove can give: all but 'book'
NonBookTags == Classifications \ {"book"}

\* C19: on every input classifyMove returns one tag, one of the ten other
\* than 'book'; with mateInBefore defined and mateInAfter undefined it is
\* 'missed_mate' whatever the rest; otherwise with missedOpportunity set it
\* is 'miss', also when the expected points lost reach 0.20 and when the
\* move would be brilliant or great.
C19_ClassifierCascade ==
  run.pc = "classified" =>
    LET p == run.locals
        tag == run.result[1]
    IN /\ tag \in NonBookTags
       /\ tag = ClassifyMove(p)
       /\ (IsSet(p.mateInBefore) /\ ~IsSet(p.mateInAfter)) => tag = "missed_mate"
       /\ (~(IsSet(p.mateInBefore) /\ ~IsSet(p.mateInAfter)) /\ p.missedOpportunity)
            => tag = "miss"

\* 'miss' was given to a move from an even position that lost 0.20 or more,
\* which the error tiers would have called a blunder
C19_Witness ==
  /\ run.pc = "classified"
  /\ run.result = Some("miss")
  /\ run.locals.missedOpportunity
  /\ run.locals.winChanceBefore = 500
  /\ run.locals.expectedPointsLost >= CLASSIFICATION_THRESHOLDS.BLUNDER_EPL
  /\ IsSet(run.locals.mateInBefore) /\ IsSet(run.locals.mateInAfter)

\* C20: a move from a decisive position (win chance before the move >= 0.80
\* or <= 0.20) that loses 0.20 expected points, without mate, missed
\* opportunity or sacrifice, is classified 'best', 'excellent' or 'good'.
C20_DecisiveIsLenient ==
  (/\ run.pc = "classified"
   /\ \/ run.locals.winChanceBefore >= CLASSIFICATION_THRESHOLDS.DECISIVE_WIN_PROB
      \/ run.locals.winChanceBefore <= CLASSIFICATION_THRESHOLDS.DECISIVE_LOSE_PROB
   /\ run.locals.expectedPointsLost = 200
   /\ ~IsSet(run.locals.mateInBefore) /\ ~IsSet(run.locals.mateInAfter)
   /\ ~run.locals.missedOpportunity
   /\ ~run.locals.isSacrifice)
    => run.result[1] \in {"best", "excellent", "good"}

\* rules 1-4 of classifyMove: 'missed_mate', 'miss', 'brilliant', 'great'
FirstFour == {"missed_mate", "miss", "brilliant", "great"}

\* the expected points lost that the error tier uses: the raw value when the
\* win chance before the move is strictly between 0.20 and 0.80, else 0
EffectiveEPL(p) ==
  IF 200 < p.winChanceBefore /\ p.winChanceBefore < 800
    THEN p.expectedPointsLost ELSE 0

C22_BrilliantExactly ==
  run.pc = "classified" =>
    LET p == run.locals
        tag == run.result[1]
    IN tag \notin {"missed_mate", "miss"} =>
         (tag = "brilliant" <=>
            /\ p.isSacrifice
            /\ p.expectedPointsLost <= 20
            /\ 200 <= p.winChanceBefore /\ p.winChanceBefore <= 750
            /\ (p.gamePhase # "endgame" \/ p.allAlternativesWorse))

\* the scenario: sacrifice, win chance 0.55, EPL 0.01, middlegame, with other
\* good alternatives
C22_Witness ==
  /\ run.pc = "classified"
  /\ run.locals.isSacrifice
  /\ run.locals.winChanceBefore = 550
  /\ run.locals.expectedPointsLost = 10
  /\ run.locals.gamePhase = "middlegame"
  /\ ~run.locals.allAlternativesWorse
  /\ run.result = Some("brilliant")

\* the plies among the first n that colour c played and that are not 'book'
Played(recs, n, c) ==
  {i \in 1..n : recs[i].classification # "book" /\ Hist[i].color \in c}

\* the expected points lost of the plies in S, added up
RECURSIVE SumOfLoss(_, _)
SumOfLoss(recs, S) ==
  IF S = {} THEN 0
  ELSE LET i == CHOOSE x \in S : TRUE
       IN recs[i].expectedPointsLost + SumOfLoss(recs, S \ {i})

\* the count fields of a summary
CountFields ==
  {"brilliant", "great", "best", "excellent", "good", "book",
   "inaccuracies", "mistakes", "misses", "blunders", "missedMates"}

C24_SignalsInRange ==
  run.pc = "signals" =>
    LET s == run.result[1]
    IN /\ s.winChanceBefore \in 0..1000
       /\ s.winChanceAfter \in 0..1000
       /\ s.expectedPointsLost \in 0..1000
       /\ (~IsSet(s.mateInBefore) /\ ~IsSet(s.mateInAfter)) =>
            /\ s.winChanceBefore <= s.winChanceAfter => s.expectedPointsLost = 0
            /\ s.winChanceBefore > s.winChanceAfter =>
                 s.expectedPointsLost = s.winChanceBefore - s.winChanceAfter

\* a ply of Black that made Black's position better, without any mate: its
\* expected points lost are 0
C24_Witness ==
  /\ run.pc = "signals"
  /\ run.result[1].currentPlayer = "b"
  /\ ~IsSet(run.result[1].mateInBefore) /\ ~IsSet(run.result[1].mateInAfter)
  /\ run.result[1].winChanceBefore < run.result[1].winChanceAfter
  /\ run.result[1].expectedPointsLost = 0

\* a value in [0, 1]
InUnitRange(x) == ~Less(x, Exact(0)) /\ ~Less(Exact(Unit), x)

\* what C25 asks of every score but strict growth
WinProbabilityBasics ==
  LET lo == run.locals.lo
      f == run.result[1].lo
  IN /\ InUnitRange(f)
     /\ run.result[1].probability \in 0..1000
     /\ lo = 0 => f = Exact(Unit \div 2) /\ run.result[1].probability = 500
     /\ lo > 10000 => f = Exact(Unit)
     /\ lo < -10000 => f = Exact(0)

\* C25 as stated: the win probability is in [0, 1] for every score, 0.5 at
\* score 0, exactly 1 and 0 for mate scores beyond the sentinel, and strictly
\* increasing in the score wherever it is not saturated (both values strictly
\* between 0 and 1).
C25_StrictlyIncreasing ==
  run.pc = "converted" =>
    /\ WinProbabilityBasics
    /\ (/\ run.locals.lo < run.locals.hi
        /\ Less(Exact(0), run.result[1].lo)
        /\ Less(run.result[1].hi, Exact(Unit)))
         => Less(run.result[1].lo, run.result[1].hi)

\* C25 as amended: the win probability is in [0, 1] for every score, 0.5 at
\* score 0, exactly 1 and 0 for mate scores beyond the sentinel, never
\* decreasing in the score, and strictly increasing for scores between -5000
\* and 5000.
C25_WinProbability ==
  run.pc = "converted" =>
    /\ WinProbabilityBasics
    /\ run.locals.lo < run.locals.hi
         => ~Less(run.result[1].hi, run.result[1].lo)
    /\ (-5000 <= run.locals.lo /\ run.locals.lo < run.locals.hi
          /\ run.locals.hi <= 5000)
         => Less(run.result[1].lo, run.result[1].hi)

\* scores 9000 and 9001 converted to the same value, which is not 1
C25_Witness ==
  /\ run.pc = "converted"
  /\ run.locals.lo = 9000 /\ run.locals.hi = 9001
  /\ run.result[1].lo = run.result[1].hi
  /\ Less(run.result[1].hi, Exact(Unit))

\* the evaluator's mateIn seen by colour c: positive when c gives the mate
MateFor(mateIn, c) == IF c = "w" THEN mateIn[1] ELSE -mateIn[1]

\* C26: for White and for Black alike, the mate-flip rule gives a ply 1.0
\* only when its mover had the forced mate before the move and the opponent
\* has one after it; a mover who was being mated before the move and has a
\* forced mate after it is never given 1.0.
C26_MateFlipFromMoversSide ==
  run.pc = "signals" =>
    LET s == run.result[1]
        rawLoss == CalculateExpectedPointsLost(s.winChanceBefore, s.winChanceAfter)
    IN (IsSet(s.mateInBefore) /\ IsSet(s.mateInAfter)) =>
         /\ (s.expectedPointsLost = 1000 /\ rawLoss # 1000) =>
              /\ MateFor(s.mateInBefore, s.currentPlayer) > 0
              /\ MateFor(s.mateInAfter, s.currentPlayer) < 0
         /\ (/\ MateFor(s.mateInBefore, s.currentPlayer) < 0
             /\ MateFor(s.mateInAfter, s.currentPlayer) > 0)
              => s.expectedPointsLost # 1000

\* C27: a ply is flagged missedOpportunity only if, seen from its mover, the
\* score before the move was above +150 or the mover had a mate, the score
\* after the move is within 100 of zero, the move played is not the
\* evaluator's best move and the expected points lost are below 0.05.
C27_MissFromMoversSide ==
  run.pc = "signals" =>
    LET s == run.result[1]
    IN s.missedOpportunity =>
         /\ \/ s.evalBefore > 150
            \/ IsSet(s.mateInBefore)
                 /\ MateFor(s.mateInBefore, s.currentPlayer) > 0
         /\ s.evalAfter < 100 /\ s.evalAfter > -100
         /\ ~s.isBestMove
         /\ s.expectedPointsLost < 50

\* C28: in every state reached by runs of analyzeGame, a game whose analyzed
\* flag is set has a stored analysis, and a job in 'completed' state has a
\* stored analysis for its gameId, to which its resultId refers.
C28_AnalyzedMeansStored ==
  /\ \A g \in GameIds : db.games[g].analyzed => IsSet(db.analyses[g])
  /\ \A j \in 1..Len(heap) :
       heap[j].status = "completed" =>
         /\ IsSet(db.analyses[heap[j].gameId])
         /\ heap[j].resultId = Some(db.analyses[heap[j].gameId][1].gameId)

\* a completed job for an analyzed game, and a second game whose analysis is
\* stored while its flag is not yet set
C28_Witness ==
  /\ \E j \in 1..Len(heap) :
       heap[j].status = "completed" /\ db.games[heap[j].gameId].analyzed
  /\ \E g \in GameIds : IsSet(db.analyses[g]) /\ ~db.games[g].analyzed

\* C29: once the job table is empty it stays empty until the next addJob,
\* also when clearAllJobs emptied it with a job in flight: the worker whose
\* analysis then finishes writes no entry into the table, and it never
\* replaces the job a later addJob stored for the same gameId.
C29_ClearedStaysCleared ==
  [][/\ (queue = <<>> /\ queue' # <<>>) => last'.op = "addJob"
     /\ \A g \in GameIds :
          (HasKey(queue, g) /\ HasKey(queue', g))
            => MapGet(queue', g) = MapGet(queue, g)]_vars

\* the jobs of the table with status s
InStatus(s) == {i \in 1..Len(queue) : heap[queue[i].job].status = s}

\* In every state of the queue without clearAllJobs: a queued job has a job
\* in flight before it, isProcessing = false goes with no queued and no
\* processing job, and getEstimatedTime for a processing job gives 60.
QueuedBehindInFlight ==
  /\ InStatus("queued") # {} => InStatus("processing") # {}
  /\ ~isProcessing => InStatus("queued") \cup InStatus("processing") = {}
  /\ (/\ last.op = "getEstimatedTime"
      /\ HasKey(queue, last.gameId)
      /\ heap[MapGet(queue, last.gameId)].status = "processing")
       => last.ok /\ last.n = 60

\* addJob for a gameId not in the table, called while the worker is idle,
\* returns a job that is already 'processing', with startedAt set.
IdleAddJobStarts ==
  (/\ ~isProcessing
   /\ last'.op = "addJob"
   /\ ~HasKey(queue, last'.gameId)
   /\ HasKey(queue', last'.gameId))
    => /\ heap'[last'.job].status = "processing"
       /\ IsSet(heap'[last'.job].startedAt)
       /\ EstimatedTime(queue', heap', isProcessing', last'.gameId)
            = [ok |-> TRUE, n |-> 60]

\* C30: a job is seen 'queued' only while another job is in flight: addJob
\* for a new gameId with the worker idle returns the job already
\* 'processing' with startedAt set, and getEstimatedTime for it gives the
\* processing constant; without clearAllJobs, isProcessing = false implies
\* that no job of the table is queued or processing.
C30_QueuedOnlyBehindInFlight ==
  []QueuedBehindInFlight /\ [][IdleAddJobStarts]_vars

\* getEstimatedTime answered 60 for the job in flight while another job of
\* the table is queued behind it and an earlier one is finished
C30_Witness ==
  /\ last.op = "getEstimatedTime"
  /\ last.ok /\ last.n = 60
  /\ HasKey(queue, last.gameId)
  /\ heap[MapGet(queue, last.gameId)].status = "processing"
  /\ InStatus("queued") # {}
  /\ InStatus("completed") # {}

====
